---- MODULE Spec2Model ----
(***************************************************************************)
(* A model of adhan (src/src/main.go): the prayer-time selector            *)
(* getNextPrayerTime, the background poll loop checkPrayerTimes, the       *)
(* interactive command handler handleUserInput and main's start-up.        *)
(*                                                                         *)
(* Go strings are modelled as sequences of one-character strings compared  *)
(* bytewise (Ord), so that time.Now().Format("15:04") and the "<" / "=="   *)
(* of the source are computed as the program computes them.                *)
(***************************************************************************)
EXTENDS Integers, Sequences, FiniteSets, TLC

VARIABLES
    clockIdx,     \* the wall clock: index of the current instant in Instants
    failsLeft,    \* environment: fetch failures the Schedule Provider may still produce
    exited,       \* os.Exit(0) has been called
    mainPc,       \* main's position
    mainTimings,  \* main: timings
    mainSel,      \* main: <<nx, tim>>
    mainNow,      \* currentTime sampled by main's getNextPrayerTime call
    mainSlept,    \* a minute boundary passed during main's time.Sleep(time.Minute)
    mainTrace,    \* notifications and log lines main produced
    pollPc,       \* checkPrayerTimes: position in the loop
    pollTimings,  \* checkPrayerTimes: timings of the current cycle
    pollSel,      \* checkPrayerTimes: <<nextPrayer, nextTime>>
    pollSelNow,   \* currentTime sampled inside getNextPrayerTime (line 70)
    pollNow,      \* currentTime sampled at the match check (line 202)
    pollSlept,    \* a minute boundary passed during the current time.Sleep
    pollLag,      \* minute boundaries passed since line 70 sampled the clock
    pollTrace,    \* effects of the current poll cycle, in order
    alertedThisMinute, \* history: line 204 ran since the clock last moved
    cmdPc,        \* handleUserInput: position
    cmdLine,      \* the line ReadString returned last
    cmdTimings,   \* handleUserInput: timings of the current command
    cmdSel,       \* handleUserInput: <<nextPrayer, nextTime>>
    cmdNow,       \* currentTime sampled by the command's getNextPrayerTime call
    cmdOut        \* what the current command wrote (stdout and log), in order

vars == <<clockIdx, failsLeft, exited, mainPc, mainTimings, mainSel, mainNow,
          mainSlept, mainTrace, pollPc, pollTimings, pollSel, pollSelNow,
          pollNow, pollSlept, pollLag, pollTrace, alertedThisMinute, cmdPc, cmdLine,
          cmdTimings, cmdSel, cmdNow, cmdOut>>

mainVars == <<mainPc, mainTimings, mainSel, mainNow, mainSlept, mainTrace>>
pollVars == <<pollPc, pollTimings, pollSel, pollSelNow, pollNow, pollSlept, pollLag,
              pollTrace, alertedThisMinute>>
cmdVars  == <<cmdPc, cmdLine, cmdTimings, cmdSel, cmdNow, cmdOut>>

----------------------------------------------------------------------------
(* Bounds *)

\* Fetch failures the Schedule Provider may produce in one behaviour.
MaxFails == 2

\* Minute boundaries that may pass between the selector's clock sample and the
\* end of the match check of the same cycle.
MaxLag == 1

----------------------------------------------------------------------------
(* Go strings *)

\* Byte value of the characters the model uses.
Ord(c) ==
    CASE c = "\t" -> 9  [] c = "\n" -> 10 [] c = "\r" -> 13 [] c = " " -> 32
      [] c = "0" -> 48 [] c = "1" -> 49 [] c = "2" -> 50 [] c = "3" -> 51
      [] c = "4" -> 52 [] c = "5" -> 53 [] c = "6" -> 54 [] c = "7" -> 55
      [] c = "8" -> 56 [] c = "9" -> 57 [] c = ":" -> 58
      [] c = "Q" -> 81 [] c = "a" -> 97 [] c = "e" -> 101 [] c = "i" -> 105
      [] c = "l" -> 108 [] c = "n" -> 110 [] c = "q" -> 113 [] c = "t" -> 116
      [] c = "u" -> 117 [] c = "x" -> 120

\* Go's s < t on strings: bytewise lexicographic, a proper prefix is smaller.
RECURSIVE StrLessFrom(_, _, _)
StrLessFrom(s, t, i) ==
    IF i > Len(t) THEN FALSE
    ELSE IF i > Len(s) THEN TRUE
    ELSE IF Ord(s[i]) < Ord(t[i]) THEN TRUE
    ELSE IF Ord(s[i]) > Ord(t[i]) THEN FALSE
    ELSE StrLessFrom(s, t, i + 1)

StrLess(s, t) == StrLessFrom(s, t, 1)

DigitChars == <<"0", "1", "2", "3", "4", "5", "6", "7", "8", "9">>

\* time.Time.Format("15:04"): zero-padded 24-hour "HH:MM".
Format1504(h, m) ==
    <<DigitChars[(h \div 10) + 1], DigitChars[(h % 10) + 1], ":",
      DigitChars[(m \div 10) + 1], DigitChars[(m % 10) + 1]>>

\* unicode.IsSpace on the characters the model uses.
IsSpace(c) == c \in {"\t", "\n", "\r", " "}

RECURSIVE TrimLeft(_)
TrimLeft(s) ==
    IF s # <<>> /\ IsSpace(Head(s)) THEN TrimLeft(Tail(s)) ELSE s

RECURSIVE TrimRight(_)
TrimRight(s) ==
    IF s # <<>> /\ IsSpace(s[Len(s)]) THEN TrimRight(SubSeq(s, 1, Len(s) - 1)) ELSE s

\* strings.TrimSpace
TrimSpace(s) == TrimRight(TrimLeft(s))

----------------------------------------------------------------------------
(* The clock: time.Now() *)

\* The instants (hour, minute) at which the model observes the program, in
\* the order the day runs through them; after the last the next day begins.
Instants ==
    << <<5, 29>>, <<5, 30>>, <<5, 31>>, <<9, 59>>, <<10, 0>>, <<12, 15>>,
       <<19, 45>>, <<23, 59>> >>

\* time.Now().Format("15:04")
CurrentTime == Format1504(Instants[clockIdx][1], Instants[clockIdx][2])

\* Time passes: the clock moves on to the next instant.
Tick ==
    /\ pollPc \in {"MATCH_CHECK", "MATCHED", "IDLE"} => pollLag < MaxLag
    /\ pollLag' = IF pollPc \in {"MATCH_CHECK", "MATCHED", "IDLE"}
                  THEN pollLag + 1 ELSE pollLag
    /\ clockIdx' = IF clockIdx = Len(Instants) THEN 1 ELSE clockIdx + 1
    /\ mainSlept' = IF mainPc = "SLEEP" THEN TRUE ELSE mainSlept
    /\ pollSlept' = IF pollPc \in {"RETRY_WAIT", "SLEEPING"} THEN TRUE ELSE pollSlept
    /\ alertedThisMinute' = FALSE
    /\ UNCHANGED <<failsLeft, exited, mainPc, mainTimings, mainSel, mainNow, mainTrace,
                   pollPc, pollTimings, pollSel, pollSelNow, pollNow, pollTrace, cmdVars>>

----------------------------------------------------------------------------
(* The Schedule Provider: getPrayerTimes *)

T(h, m) == Format1504(h, m)

MkTimings(fajr, sunrise, dhuhr, asr, maghrib, isha) ==
    [Fajr |-> fajr, Sunrise |-> sunrise, Dhuhr |-> dhuhr, Asr |-> asr,
     Sunset |-> maghrib, Maghrib |-> maghrib, Isha |-> isha,
     Imsak |-> T(5, 29), Midnight |-> T(23, 59)]

\* Timings{}: what getPrayerTimes returns beside an error.
ZeroTimings ==
    [Fajr |-> <<>>, Sunrise |-> <<>>, Dhuhr |-> <<>>, Asr |-> <<>>,
     Sunset |-> <<>>, Maghrib |-> <<>>, Isha |-> <<>>,
     Imsak |-> <<>>, Midnight |-> <<>>]

\* Strictly ascending days.
AscendingSchedules ==
    { MkTimings(T(5, 30), T(5, 31), T(9, 59), T(10, 0), T(12, 15), T(19, 45)),
      MkTimings(T(5, 29), T(5, 30), T(10, 0), T(12, 15), T(19, 45), T(23, 59)) }

\* An ascending day in which neighbouring events share a time: the program
\* does not validate what the decoded JSON holds.
TiedSchedules ==
    { MkTimings(T(5, 30), T(5, 30), T(12, 15), T(12, 15), T(19, 45), T(19, 45)) }

\* What a successful getPrayerTimes may return (response.Data.Timings).
Schedules == AscendingSchedules \cup TiedSchedules

----------------------------------------------------------------------------
(* The Next-Event Selector: getNextPrayerTime *)

\* The six candidates, in the order of the source's slice literal.
prayers(timings) ==
    << <<"Fajr", timings.Fajr>>, <<"Sunrise", timings.Sunrise>>,
       <<"Dhuhr", timings.Dhuhr>>, <<"Asr", timings.Asr>>,
       <<"Maghrib", timings.Maghrib>>, <<"Isha", timings.Isha>> >>

\* Mutant: a non-strict comparison.
PrayerIsNextOrNow(currentTime, prayer) ==
    StrLess(currentTime, prayer[2]) \/ currentTime = prayer[2]

\* if currentTime < prayer.Time
PrayerIsNext(currentTime, prayer) == StrLess(currentTime, prayer[2])

\* for _, prayer := range prayers: the index of the first prayer the loop
\* returns at, or 0 when the loop runs to its end.
RECURSIVE FirstNext(_, _, _)
FirstNext(currentTime, ps, i) ==
    IF i > Len(ps) THEN 0
    ELSE IF PrayerIsNext(currentTime, ps[i]) THEN i
    ELSE FirstNext(currentTime, ps, i + 1)

\* Mutant: when every prayer has passed, the last one is returned.
getNextPrayerTimeWrapLast(currentTime, timings) ==
    LET ps == prayers(timings)
        i  == FirstNext(currentTime, ps, 1)
    IN  IF i # 0 THEN <<ps[i][1], ps[i][2]>>
        ELSE <<ps[Len(ps)][1], ps[Len(ps)][2]>>

\* getNextPrayerTime with the value of time.Now().Format("15:04") it read.
getNextPrayerTime(currentTime, timings) ==
    LET ps == prayers(timings)
        i  == FirstNext(currentTime, ps, 1)
    IN  IF i # 0 THEN <<ps[i][1], ps[i][2]>>
        ELSE <<ps[1][1], timings.Fajr>>

----------------------------------------------------------------------------
(* The Alert Sink: showNotification *)

\* What showNotification does: the notification pushed and, when note.Push()
\* fails, the log line; nothing is returned or raised.
showNotification(title, message, pushOk) ==
    IF pushOk THEN << <<"notify", title, message>> >>
    ELSE << <<"notify", title, message>>, <<"log", "Uh oh!">> >>

\* log.Println("Failed to fetch prayer times:", err)
FetchFailedLog == <<"log", "Failed to fetch prayer times:">>

----------------------------------------------------------------------------
(* Initial state: the process has just been started, at any time of day *)

\* nextPrayer, nextTime before getNextPrayerTime has been called.
NoSel == <<"", <<>>>>

\* currentTime before time.Now() has been sampled.
NoTime == <<>>

Init ==
    /\ clockIdx \in 1..Len(Instants)
    /\ failsLeft = MaxFails
    /\ exited = FALSE
    /\ mainPc = "START"
    /\ mainTimings = ZeroTimings
    /\ mainSel = NoSel
    /\ mainNow = NoTime
    /\ mainSlept = FALSE
    /\ mainTrace = <<>>
    /\ pollPc = "NOT_STARTED"
    /\ pollTimings = ZeroTimings
    /\ pollSel = NoSel
    /\ pollSelNow = NoTime
    /\ pollNow = NoTime
    /\ pollSlept = FALSE
    /\ pollLag = 0
    /\ pollTrace = <<>>
    /\ alertedThisMinute = FALSE
    /\ cmdPc = "NOT_STARTED"
    /\ cmdLine = <<>>
    /\ cmdTimings = ZeroTimings
    /\ cmdSel = NoSel
    /\ cmdNow = NoTime
    /\ cmdOut = <<>>

----------------------------------------------------------------------------
(* main *)

\* showNotification("Adhan", "Adhan app is active!"); time.Sleep(3 * time.Second)
MainStart ==
    /\ ~exited /\ mainPc = "START"
    /\ \E pushOk \in BOOLEAN :
         mainTrace' = showNotification("Adhan", <<"Adhan app is active!">>, pushOk)
    /\ mainPc' = "FETCH"
    /\ UNCHANGED <<clockIdx, failsLeft, exited, mainTimings, mainSel, mainNow,
                   mainSlept, pollVars, cmdVars>>

\* timings, err := getPrayerTimes() with err == nil
MainFetchOk ==
    /\ ~exited /\ mainPc = "FETCH"
    /\ \E t \in Schedules : mainTimings' = t
    /\ mainPc' = "SELECT"
    /\ UNCHANGED <<clockIdx, failsLeft, exited, mainSel, mainNow, mainSlept,
                   mainTrace, pollVars, cmdVars>>

\* Mutant: the failure is logged with log.Fatalln, which exits the process.
MainFetchFailFatal ==
    /\ ~exited /\ mainPc = "FETCH"
    /\ failsLeft > 0
    /\ failsLeft' = failsLeft - 1
    /\ mainTimings' = ZeroTimings
    /\ mainTrace' = Append(mainTrace, FetchFailedLog)
    /\ exited' = TRUE
    /\ UNCHANGED <<clockIdx, mainPc, mainSel, mainNow, mainSlept, pollVars, cmdVars>>

\* err != nil: log the failure and time.Sleep(time.Minute); timings is Timings{}
MainFetchFail ==
    /\ ~exited /\ mainPc = "FETCH"
    /\ failsLeft > 0
    /\ failsLeft' = failsLeft - 1
    /\ mainTimings' = ZeroTimings
    /\ mainTrace' = Append(mainTrace, FetchFailedLog)
    /\ mainSlept' = FALSE
    /\ mainPc' = "SLEEP"
    /\ UNCHANGED <<clockIdx, exited, mainSel, mainNow, pollVars, cmdVars>>

\* time.Sleep(time.Minute) returns; main goes on past the if
MainWake ==
    /\ ~exited /\ mainPc = "SLEEP"
    /\ mainSlept
    /\ mainPc' = "SELECT"
    /\ UNCHANGED <<clockIdx, failsLeft, exited, mainTimings, mainSel, mainNow,
                   mainSlept, mainTrace, pollVars, cmdVars>>

\* nx, tim := getNextPrayerTime(timings); showNotification("Adhan", ...)
MainSelect ==
    /\ ~exited /\ mainPc = "SELECT"
    /\ mainNow' = CurrentTime
    /\ mainSel' = getNextPrayerTime(CurrentTime, mainTimings)
    /\ \E pushOk \in BOOLEAN :
         mainTrace' = mainTrace \o
             showNotification("Adhan",
                 <<"Next Prayer is : ", mainSel'[1], " at: ", mainSel'[2]>>, pushOk)
    /\ mainPc' = "SPAWN"
    /\ UNCHANGED <<clockIdx, failsLeft, exited, mainTimings, mainSlept,
                   pollVars, cmdVars>>

\* wg.Add(1); go checkPrayerTimes(&wg); handleUserInput().  main's locals are
\* never read again and are dropped from the state here.
MainSpawn ==
    /\ ~exited /\ mainPc = "SPAWN"
    /\ mainPc' = "RUNNING"
    /\ mainTimings' = ZeroTimings
    /\ mainSel' = NoSel
    /\ mainNow' = NoTime
    /\ mainTrace' = <<>>
    /\ pollPc' = "FETCHING"
    /\ cmdPc' = "PROMPT"
    /\ UNCHANGED <<clockIdx, failsLeft, exited, mainSlept, pollTimings, pollSel,
                   pollSelNow, pollNow, pollSlept, pollLag, alertedThisMinute, pollTrace, cmdLine,
                   cmdTimings, cmdSel, cmdNow, cmdOut>>

----------------------------------------------------------------------------
(* The Poll Loop: checkPrayerTimes *)

\* timings, err := getPrayerTimes() with err == nil
PollFetchOk ==
    /\ ~exited /\ pollPc = "FETCHING"
    /\ \E t \in Schedules : pollTimings' = t
    /\ pollTrace' = << <<"fetch", "ok">> >>
    /\ pollPc' = "SELECTING"
    /\ UNCHANGED <<clockIdx, failsLeft, exited, mainVars, pollSel, pollSelNow,
                   pollNow, pollSlept, pollLag, alertedThisMinute, cmdVars>>

\* Mutant: the failure is logged but the iteration goes on with Timings{}.
PollFetchFailNoContinue ==
    /\ ~exited /\ pollPc = "FETCHING"
    /\ failsLeft > 0
    /\ failsLeft' = failsLeft - 1
    /\ pollTimings' = ZeroTimings
    /\ pollTrace' = << <<"fetch", "err">>, FetchFailedLog >>
    /\ pollPc' = "SELECTING"
    /\ UNCHANGED <<clockIdx, exited, mainVars, pollSel, pollSelNow, pollNow, pollSlept,
                   pollLag, alertedThisMinute, cmdVars>>

\* err != nil: log.Println(...); time.Sleep(time.Minute) begins
PollFetchFail ==
    /\ ~exited /\ pollPc = "FETCHING"
    /\ failsLeft > 0
    /\ failsLeft' = failsLeft - 1
    /\ pollTimings' = ZeroTimings
    /\ pollTrace' = << <<"fetch", "err">>, FetchFailedLog, <<"sleep", "1m">> >>
    /\ pollSlept' = FALSE
    /\ pollPc' = "RETRY_WAIT"
    /\ UNCHANGED <<clockIdx, exited, mainVars, pollSel, pollSelNow, pollNow, pollLag,
                   alertedThisMinute,
                   cmdVars>>

\* Mutant: after the retry sleep the loop is left instead of continued.
PollRetryBreaks ==
    /\ ~exited /\ pollPc = "RETRY_WAIT"
    /\ pollSlept
    /\ pollTrace' = <<>>
    /\ pollPc' = "RETURNED"
    /\ UNCHANGED <<clockIdx, failsLeft, exited, mainVars, pollTimings, pollSel,
                   pollSelNow, pollNow, pollSlept, pollLag, alertedThisMinute, cmdVars>>

\* the retry sleep returns; continue: the next iteration starts
PollRetry ==
    /\ ~exited /\ pollPc = "RETRY_WAIT"
    /\ pollSlept
    /\ pollTrace' = <<>>
    /\ pollPc' = "FETCHING"
    /\ UNCHANGED <<clockIdx, failsLeft, exited, mainVars, pollTimings, pollSel,
                   pollSelNow, pollNow, pollSlept, pollLag, alertedThisMinute, cmdVars>>

\* Mutant: the status line is printed with Fajr's time.
PollSelectPrintsFajrTime ==
    /\ ~exited /\ pollPc = "SELECTING"
    /\ pollSelNow' = CurrentTime
    /\ pollSel' = getNextPrayerTime(CurrentTime, pollTimings)
    /\ pollTrace' = Append(pollTrace, <<"status", pollSel'[1], pollTimings.Fajr>>)
    /\ pollLag' = 0
    /\ pollPc' = "MATCH_CHECK"
    /\ UNCHANGED <<clockIdx, failsLeft, exited, mainVars, pollTimings, pollNow,
                   pollSlept, alertedThisMinute, cmdVars>>

\* nextPrayer, nextTime := getNextPrayerTime(timings); fmt.Printf("Next prayer: ...")
PollSelect ==
    /\ ~exited /\ pollPc = "SELECTING"
    /\ pollSelNow' = CurrentTime
    /\ pollSel' = getNextPrayerTime(CurrentTime, pollTimings)
    /\ pollTrace' = Append(pollTrace, <<"status", pollSel'[1], pollSel'[2]>>)
    /\ pollLag' = 0
    /\ pollPc' = "MATCH_CHECK"
    /\ UNCHANGED <<clockIdx, failsLeft, exited, mainVars, pollTimings, pollNow,
                   pollSlept, alertedThisMinute, cmdVars>>

\* Mutant: the match check compares the time sampled by the selector.
MatchesStale(currentTime, nextTime) == pollSelNow = nextTime

\* if currentTime == nextTime
Matches(currentTime, nextTime) == currentTime = nextTime

\* Mutant: the match check is a for loop, so it is repeated after the alert.
PollMatchedWhile ==
    /\ ~exited /\ pollPc = "MATCH_CHECK"
    /\ pollNow' = CurrentTime
    /\ Matches(CurrentTime, pollSel[2])
    /\ \E pushOk \in BOOLEAN :
         pollTrace' = pollTrace \o
             showNotification("Prayer Time",
                 <<"It's time for ", pollSel[1], " prayer.">>, pushOk)
    /\ alertedThisMinute' = TRUE
    /\ pollPc' = "MATCH_CHECK"
    /\ UNCHANGED <<clockIdx, failsLeft, exited, mainVars, pollTimings, pollSel,
                   pollSelNow, pollSlept, pollLag, cmdVars>>

\* currentTime := time.Now().Format("15:04"); the times are equal:
\* showNotification("Prayer Time", "It's time for <nextPrayer> prayer.")
PollMatched ==
    /\ ~exited /\ pollPc = "MATCH_CHECK"
    /\ pollNow' = CurrentTime
    /\ Matches(CurrentTime, pollSel[2])
    /\ \E pushOk \in BOOLEAN :
         pollTrace' = pollTrace \o
             showNotification("Prayer Time",
                 <<"It's time for ", pollSel[1], " prayer.">>, pushOk)
    /\ alertedThisMinute' = TRUE
    /\ pollPc' = "MATCHED"
    /\ UNCHANGED <<clockIdx, failsLeft, exited, mainVars, pollTimings, pollSel,
                   pollSelNow, pollSlept, pollLag, cmdVars>>

\* currentTime := time.Now().Format("15:04"); the times differ: no alert
PollIdle ==
    /\ ~exited /\ pollPc = "MATCH_CHECK"
    /\ pollNow' = CurrentTime
    /\ ~Matches(CurrentTime, pollSel[2])
    /\ pollPc' = "IDLE"
    /\ UNCHANGED <<clockIdx, failsLeft, exited, mainVars, pollTimings, pollSel,
                   pollSelNow, pollSlept, pollLag, alertedThisMinute, pollTrace, cmdVars>>

\* Mutant: after an alert the loop continues without the sleep.
PollSleepSkippedAfterAlert ==
    /\ ~exited /\ pollPc \in {"MATCHED", "IDLE"}
    /\ pollTrace' = IF pollPc = "MATCHED" THEN <<>> ELSE Append(pollTrace, <<"sleep", "1m">>)
    /\ pollSlept' = FALSE
    /\ pollTimings' = ZeroTimings
    /\ pollSel' = NoSel
    /\ pollSelNow' = NoTime
    /\ pollNow' = NoTime
    /\ pollLag' = 0
    /\ pollPc' = IF pollPc = "MATCHED" THEN "FETCHING" ELSE "SLEEPING"
    /\ UNCHANGED <<clockIdx, failsLeft, exited, mainVars, alertedThisMinute, cmdVars>>

\* time.Sleep(1 * time.Minute) begins.  The iteration's locals are not read
\* again and are dropped from the state here; pollTrace keeps what was output.
PollSleep ==
    /\ ~exited /\ pollPc \in {"MATCHED", "IDLE"}
    /\ pollTrace' = Append(pollTrace, <<"sleep", "1m">>)
    /\ pollSlept' = FALSE
    /\ pollTimings' = ZeroTimings
    /\ pollSel' = NoSel
    /\ pollSelNow' = NoTime
    /\ pollNow' = NoTime
    /\ pollLag' = 0
    /\ pollPc' = "SLEEPING"
    /\ UNCHANGED <<clockIdx, failsLeft, exited, mainVars, alertedThisMinute, cmdVars>>

\* the sleep returns; the next iteration starts
PollWake ==
    /\ ~exited /\ pollPc = "SLEEPING"
    /\ pollSlept
    /\ pollTrace' = <<>>
    /\ pollPc' = "FETCHING"
    /\ UNCHANGED <<clockIdx, failsLeft, exited, mainVars, pollTimings, pollSel,
                   pollSelNow, pollNow, pollSlept, pollLag, alertedThisMinute, cmdVars>>

----------------------------------------------------------------------------
(* The Command Surface: handleUserInput *)

CmdNextStr == <<"n", "e", "x", "t">>
CmdAllStr  == <<"a", "l", "l">>
CmdQuitStr == <<"q">>

\* What reader.ReadString('\n') may return: the commands with and without
\* surrounding whitespace, other words, an empty line, and "" at end of input.
Lines ==
    { CmdNextStr \o <<"\n">>,
      <<" ">> \o CmdNextStr \o <<" ", "\r", "\n">>,
      <<"\t">> \o CmdAllStr \o <<"\n">>,
      CmdQuitStr \o <<"\n">>,
      <<" ">> \o CmdQuitStr,
      <<"q", "u", "i", "t", "\n">>,
      <<"n", "e", " ", "x", "t", "\n">>,
      <<>> }

\* Mutant: only the line terminator is removed.
CommandOfChomped(line) ==
    IF line # <<>> /\ line[Len(line)] = "\n" THEN SubSeq(line, 1, Len(line) - 1) ELSE line

\* command = strings.TrimSpace(command)
CommandOf(line) == TrimSpace(line)

\* fmt.Print("Enter a command (or 'q' to quit): ")
Prompt == <<"prompt", "Enter a command (or 'q' to quit): ">>

\* fmt.Println("Invalid command")
InvalidCommand == <<"print", "Invalid command">>

\* case "next": the fetch is issued
CmdNext ==
    /\ ~exited /\ cmdPc = "PROMPT"
    /\ \E line \in Lines :
         /\ CommandOf(line) = CmdNextStr
         /\ cmdLine' = line
    /\ cmdOut' = <<Prompt>>
    /\ cmdTimings' = ZeroTimings
    /\ cmdSel' = NoSel
    /\ cmdNow' = NoTime
    /\ cmdPc' = "FETCH_NEXT"
    /\ UNCHANGED <<clockIdx, failsLeft, exited, mainVars, pollVars>>

\* case "all": the fetch is issued
CmdAll ==
    /\ ~exited /\ cmdPc = "PROMPT"
    /\ \E line \in Lines :
         /\ CommandOf(line) = CmdAllStr
         /\ cmdLine' = line
    /\ cmdOut' = <<Prompt>>
    /\ cmdTimings' = ZeroTimings
    /\ cmdSel' = NoSel
    /\ cmdNow' = NoTime
    /\ cmdPc' = "FETCH_ALL"
    /\ UNCHANGED <<clockIdx, failsLeft, exited, mainVars, pollVars>>

\* Mutant: the handler only returns, leaving the process to wg.Wait().
CmdQuitReturnOnly ==
    /\ ~exited /\ cmdPc = "PROMPT"
    /\ \E line \in Lines :
         /\ CommandOf(line) = CmdQuitStr
         /\ cmdLine' = line
    /\ cmdOut' = <<Prompt>>
    /\ cmdTimings' = ZeroTimings
    /\ cmdSel' = NoSel
    /\ cmdNow' = NoTime
    /\ cmdPc' = "QUIT"
    /\ UNCHANGED <<clockIdx, failsLeft, exited, mainVars, pollVars>>

\* case "q": os.Exit(0)
CmdQuit ==
    /\ ~exited /\ cmdPc = "PROMPT"
    /\ \E line \in Lines :
         /\ CommandOf(line) = CmdQuitStr
         /\ cmdLine' = line
    /\ cmdOut' = <<Prompt>>
    /\ cmdTimings' = ZeroTimings
    /\ cmdSel' = NoSel
    /\ cmdNow' = NoTime
    /\ cmdPc' = "QUIT"
    /\ exited' = TRUE
    /\ UNCHANGED <<clockIdx, failsLeft, mainVars, pollVars>>

\* default: fmt.Println("Invalid command"); the loop prompts again
CmdInvalid ==
    /\ ~exited /\ cmdPc = "PROMPT"
    /\ \E line \in Lines :
         /\ CommandOf(line) \notin {CmdNextStr, CmdAllStr, CmdQuitStr}
         /\ cmdLine' = line
    /\ cmdOut' = <<Prompt, InvalidCommand>>
    /\ cmdTimings' = ZeroTimings
    /\ cmdSel' = NoSel
    /\ cmdNow' = NoTime
    /\ cmdPc' = "PROMPT"
    /\ UNCHANGED <<clockIdx, failsLeft, exited, mainVars, pollVars>>

\* Mutant: the failed fetch is logged but the case goes on with Timings{}.
CmdFetchFailNoContinue ==
    /\ ~exited /\ cmdPc \in {"FETCH_NEXT", "FETCH_ALL"}
    /\ failsLeft > 0
    /\ failsLeft' = failsLeft - 1
    /\ cmdTimings' = ZeroTimings
    /\ cmdNow' = IF cmdPc = "FETCH_NEXT" THEN CurrentTime ELSE cmdNow
    /\ cmdSel' = IF cmdPc = "FETCH_NEXT"
                 THEN getNextPrayerTime(CurrentTime, ZeroTimings) ELSE cmdSel
    /\ cmdOut' = cmdOut \o
         << FetchFailedLog,
            IF cmdPc = "FETCH_NEXT" THEN <<"status", cmdSel'[1], cmdSel'[2]>>
            ELSE <<"table", <<"Prayer", "Time">>, prayers(ZeroTimings)>> >>
    /\ cmdPc' = "PROMPT"
    /\ UNCHANGED <<clockIdx, exited, cmdLine, mainVars, pollVars>>

\* next / all, err != nil: log.Println(...); continue
CmdFetchFail ==
    /\ ~exited /\ cmdPc \in {"FETCH_NEXT", "FETCH_ALL"}
    /\ failsLeft > 0
    /\ failsLeft' = failsLeft - 1
    /\ cmdTimings' = ZeroTimings
    /\ cmdOut' = Append(cmdOut, FetchFailedLog)
    /\ cmdPc' = "PROMPT"
    /\ UNCHANGED <<clockIdx, exited, cmdLine, cmdSel, cmdNow, mainVars, pollVars>>

\* Mutant: timings is a package-level variable both goroutines assign.
CmdNextOkSharedTimings ==
    /\ ~exited /\ cmdPc = "FETCH_NEXT"
    /\ \E t \in Schedules : cmdTimings' = t
    /\ pollTimings' = cmdTimings'
    /\ cmdNow' = CurrentTime
    /\ cmdSel' = getNextPrayerTime(CurrentTime, cmdTimings')
    /\ cmdOut' = Append(cmdOut, <<"status", cmdSel'[1], cmdSel'[2]>>)
    /\ cmdPc' = "PROMPT"
    /\ UNCHANGED <<clockIdx, failsLeft, exited, cmdLine, mainVars, pollPc, pollSel,
                   pollSelNow, pollNow, pollSlept, pollLag, alertedThisMinute, pollTrace>>

\* next, err == nil: getNextPrayerTime(timings); fmt.Printf("Next prayer: ...")
CmdNextOk ==
    /\ ~exited /\ cmdPc = "FETCH_NEXT"
    /\ \E t \in Schedules : cmdTimings' = t
    /\ cmdNow' = CurrentTime
    /\ cmdSel' = getNextPrayerTime(CurrentTime, cmdTimings')
    /\ cmdOut' = Append(cmdOut, <<"status", cmdSel'[1], cmdSel'[2]>>)
    /\ cmdPc' = "PROMPT"
    /\ UNCHANGED <<clockIdx, failsLeft, exited, cmdLine, mainVars, pollVars>>

\* all, err == nil: printTable(header, data)
CmdAllOk ==
    /\ ~exited /\ cmdPc = "FETCH_ALL"
    /\ \E t \in Schedules : cmdTimings' = t
    /\ cmdOut' = Append(cmdOut, <<"table", <<"Prayer", "Time">>, prayers(cmdTimings')>>)
    /\ cmdPc' = "PROMPT"
    /\ UNCHANGED <<clockIdx, failsLeft, exited, cmdLine, cmdSel, cmdNow,
                   mainVars, pollVars>>

----------------------------------------------------------------------------
(* The program *)

MainStep == MainStart \/ MainFetchOk \/ MainFetchFail \/ MainWake \/ MainSelect \/ MainSpawn

PollStep ==
    \/ PollFetchOk \/ PollFetchFail \/ PollRetry \/ PollSelect
    \/ PollMatched \/ PollIdle \/ PollSleep \/ PollWake

CmdStep ==
    \/ CmdNext \/ CmdAll \/ CmdQuit \/ CmdInvalid
    \/ CmdFetchFail \/ CmdNextOk \/ CmdAllOk

Next == Tick \/ MainStep \/ PollStep \/ CmdStep

Spec == Init /\ [][Next]_vars

\* The poll loop under a fair scheduler: main and the poll goroutine keep
\* being run and time passes.  The user may quit or type unrecognized lines;
\* the commands next and all, which read and write none of the poll loop's
\* variables, are left to Spec.
PollNext == Tick \/ MainStep \/ PollStep \/ CmdQuit \/ CmdInvalid

FairSpec ==
    Init /\ [][PollNext]_vars /\ WF_vars(Tick) /\ WF_vars(MainStep) /\ WF_vars(PollStep)

----------------------------------------------------------------------------
(* Vocabulary of the properties *)

\* The minute of the day a well-formed "HH:MM" string denotes.
Minutes(s) ==
    ((Ord(s[1]) - 48) * 10 + (Ord(s[2]) - 48)) * 60
        + (Ord(s[4]) - 48) * 10 + (Ord(s[5]) - 48)

CanonicalNames == <<"Fajr", "Sunrise", "Dhuhr", "Asr", "Maghrib", "Isha">>

\* The time a schedule gives the i-th canonical event.
EventTime(t, i) ==
    CASE i = 1 -> t.Fajr [] i = 2 -> t.Sunrise [] i = 3 -> t.Dhuhr
      [] i = 4 -> t.Asr  [] i = 5 -> t.Maghrib [] i = 6 -> t.Isha

\* The events of t that are chronologically after now.
LaterEvents(now, t) == {i \in 1..6 : Minutes(EventTime(t, i)) > Minutes(now)}

\* What the Next-Event Selector is specified to return.
ExpectedNext(now, t) ==
    LET later == LaterEvents(now, t)
    IN  IF later = {} THEN <<"Fajr", t.Fajr>>
        ELSE LET i == CHOOSE k \in later : \A j \in later : k <= j
             IN  <<CanonicalNames[i], EventTime(t, i)>>

StrictlyAscending(t) ==
    \A i \in 1..5 : Minutes(EventTime(t, i)) < Minutes(EventTime(t, i + 1))

\* The selections the program has made and still holds: <<now, schedule, result>>
\* of the poll loop's, the command handler's and main's call.
Selections ==
    (IF pollSelNow # NoTime THEN {<<pollSelNow, pollTimings, pollSel>>} ELSE {})
    \cup (IF cmdNow # NoTime THEN {<<cmdNow, cmdTimings, cmdSel>>} ELSE {})
    \cup (IF mainNow # NoTime /\ mainTimings \in Schedules
          THEN {<<mainNow, mainTimings, mainSel>>} ELSE {})

----------------------------------------------------------------------------
(* C1 *)

\* C1: for every schedule and every clock value the selector returns the first
\* of Fajr, Sunrise, Dhuhr, Asr, Maghrib, Isha whose time is strictly after
\* now, and Fajr with Fajr's own time when none is; the name is always one of
\* the six.
C1_SelectsFirstLaterEvent ==
    \A sel \in Selections :
        /\ sel[3] = ExpectedNext(sel[1], sel[2])
        /\ \E i \in 1..6 : sel[3][1] = CanonicalNames[i]

\* The poll loop holds a wrap-around result while the command handler holds
\* one of the middle of the day.
C1_Witness ==
    /\ pollPc = "MATCH_CHECK"
    /\ StrictlyAscending(pollTimings)
    /\ LaterEvents(pollSelNow, pollTimings) = {}
    /\ pollSel = <<"Fajr", pollTimings.Fajr>>
    /\ cmdNow # NoTime
    /\ cmdSel[1] = "Asr"
    /\ cmdSel[2] # cmdNow

----------------------------------------------------------------------------
(* C2 *)

\* The selection the claim describes for now = event[i].time.
AfterEvent(t, i) ==
    IF i = 6 THEN <<"Fajr", t.Fajr>> ELSE <<CanonicalNames[i + 1], EventTime(t, i + 1)>>

\* C2 as stated: for all schedules, when now equals event[i].time the selector
\* returns event[i+1] (Fajr after the last), never an event whose time is now.
C2_Original ==
    \A sel \in Selections :
        /\ \A i \in 1..6 :
             EventTime(sel[2], i) = sel[1] => sel[3] = AfterEvent(sel[2], i)
        /\ sel[3][2] # sel[1]

\* C2 amended: the same for every schedule whose six times are strictly
\* ascending.
C2_NextAfterEqualTime ==
    \A sel \in Selections :
        StrictlyAscending(sel[2]) =>
            /\ \A i \in 1..6 :
                 EventTime(sel[2], i) = sel[1] => sel[3] = AfterEvent(sel[2], i)
            /\ sel[3][2] # sel[1]

\* now is Asr's time in one call and Isha's, the last event's, in another.
C2_Witness ==
    /\ pollSelNow # NoTime /\ cmdNow # NoTime
    /\ StrictlyAscending(pollTimings) /\ StrictlyAscending(cmdTimings)
    /\ pollSelNow = pollTimings.Asr
    /\ pollSel = <<"Maghrib", pollTimings.Maghrib>>
    /\ cmdNow = cmdTimings.Isha
    /\ cmdSel = <<"Fajr", cmdTimings.Fajr>>

----------------------------------------------------------------------------
(* C4, C5 *)

\* The positions of the notifications in a trace.
Alerts(trace) == {k \in 1..Len(trace) : trace[k][1] = "notify"}

\* The notification the poll loop is specified to push for the event named name.
PrayerAlert(name) == <<"notify", "Prayer Time", <<"It's time for ", name, " prayer.">>>>

\* C4: in a poll cycle whose fetch succeeded the Alert Sink is invoked if and
\* only if the time sampled at the match check equals the selected
\* nextEventTime; the alert has the title "Prayer Time" and names the selected
\* event, whose time is the sampled time.  Before the match check the cycle has
\* invoked no alert.
C4_AlertIffFreshTimeMatches ==
    /\ pollPc \in {"MATCHED", "IDLE"} =>
         /\ (Alerts(pollTrace) # {}) <=> (pollNow = pollSel[2])
         /\ (pollPc = "MATCHED") <=> (Alerts(pollTrace) # {})
         /\ Cardinality(Alerts(pollTrace)) <= 1
         /\ \A k \in Alerts(pollTrace) :
              /\ pollTrace[k] = PrayerAlert(pollSel[1])
              /\ \E i \in 1..6 :
                   /\ CanonicalNames[i] = pollSel[1]
                   /\ EventTime(pollTimings, i) = pollNow
    /\ pollPc \in {"FETCHING", "RETRY_WAIT", "SELECTING", "MATCH_CHECK"} =>
         Alerts(pollTrace) = {}

\* The clock crossed into Dhuhr's minute between the selector's sample and the
\* match check, and the alert for Dhuhr was pushed.
C4_Witness ==
    /\ pollPc = "MATCHED"
    /\ pollSel[1] = "Dhuhr"
    /\ pollNow = pollTimings.Dhuhr
    /\ pollSelNow # pollNow
    /\ \E k \in Alerts(pollTrace) : pollTrace[k] = PrayerAlert("Dhuhr")

\* C5 as stated: for each event of a strictly ascending schedule, a poll cycle
\* with a successful fetch that runs while the clock reads the event's time
\* invokes the Alert Sink for that event.
C5_AlertAtEventTime ==
    (pollPc \in {"MATCHED", "IDLE"} /\ StrictlyAscending(pollTimings)) =>
        \A i \in 1..6 :
            (pollSelNow = EventTime(pollTimings, i) /\ pollNow = EventTime(pollTimings, i))
                => \E k \in Alerts(pollTrace) : pollTrace[k] = PrayerAlert(CanonicalNames[i])

----------------------------------------------------------------------------
(* C6, C7 *)

\* C6: a failed fetch of the poll loop is logged and followed by the 1-minute
\* retry sleep and nothing else: no selection, no status line, no alert, no exit;
\* when the sleep is over the loop fetches again, whatever number of failures
\* came before.  Only a successful fetch leads to SELECTING.
C6_FailedFetchRetries ==
    [][/\ (pollPc = "FETCHING" /\ pollPc' # "FETCHING") =>
            \/ pollPc' = "SELECTING" /\ pollTrace' = << <<"fetch", "ok">> >>
            \/ /\ pollPc' = "RETRY_WAIT"
               /\ pollTrace' = << <<"fetch", "err">>, FetchFailedLog, <<"sleep", "1m">> >>
               /\ pollSel' = NoSel /\ pollSelNow' = NoTime /\ pollNow' = NoTime
               /\ ~pollSlept'
               /\ ~exited'
       /\ (pollPc = "RETRY_WAIT" /\ pollPc' # "RETRY_WAIT") =>
            /\ pollSlept
            /\ pollPc' = "FETCHING"
            /\ ~exited'
       /\ (pollPc = "RETRY_WAIT" /\ pollPc' = "RETRY_WAIT") =>
            UNCHANGED <<pollTrace, pollSel, pollSelNow, pollNow>>
      ]_vars

\* The provider's failures are used up by the poll loop, which waits to retry.
C6_Witness ==
    /\ pollPc = "RETRY_WAIT"
    /\ failsLeft = 0
    /\ pollSlept
    /\ ~exited

\* C7: when the provider fails finitely often, a poll loop waiting to retry
\* eventually reaches SELECTING, unless the process is quit.
C7_RetryReachesSelecting ==
    (pollPc = "RETRY_WAIT") ~> (pollPc = "SELECTING" \/ exited)

\* The first fetch of the poll loop has failed and it waits to retry.
C7_Witness ==
    /\ pollPc = "RETRY_WAIT"
    /\ ~pollSlept
    /\ failsLeft = MaxFails - 1
    /\ ~exited

----------------------------------------------------------------------------
(* C8, C9, C10 *)

\* C8: once "q" has been processed the process has exited: the poll loop does
\* no further fetch, status line, alert or sleep, whatever state it was in, and
\* no further command is read.
C8_QuitStopsEverything ==
    [][/\ (cmdPc' = "QUIT") => exited'
       /\ (cmdPc = "QUIT") =>
            UNCHANGED <<exited, mainPc, mainTrace, pollPc, pollTrace, cmdPc, cmdLine, cmdOut>>
      ]_vars

\* "q" was processed while the poll loop was between selection and match check.
C8_Witness ==
    /\ cmdPc = "QUIT"
    /\ exited
    /\ pollPc = "MATCH_CHECK"

Whitespace == {" ", "\t", "\n", "\r"}

\* line is cmd with nothing but whitespace before and after it.
IsPadded(line, cmd) ==
    \E a \in 0..Len(line) :
        /\ a + Len(cmd) <= Len(line)
        /\ SubSeq(line, a + 1, a + Len(cmd)) = cmd
        /\ \A k \in 1..a : line[k] \in Whitespace
        /\ \A k \in (a + Len(cmd) + 1)..Len(line) : line[k] \in Whitespace

\* The positions at which a command wrote "Invalid command".
Invalids(out) == {k \in 1..Len(out) : out[k][1] = "print"}

\* C9: a line is handled as next, all or q exactly when it is that word
\* surrounded by whitespace only; every other line gets "Invalid command" and
\* the handler is back at its prompt.
C9_ThreeCommands ==
    cmdOut # <<>> =>
        LET isNext == IsPadded(cmdLine, CmdNextStr)
            isAll  == IsPadded(cmdLine, CmdAllStr)
            isQuit == IsPadded(cmdLine, CmdQuitStr)
        IN  /\ ~(isNext \/ isAll \/ isQuit) =>
                 /\ cmdOut = <<Prompt, InvalidCommand>>
                 /\ cmdPc = "PROMPT"
                 /\ ~exited
            /\ (isNext \/ isAll \/ isQuit) => Invalids(cmdOut) = {}
            /\ isNext =>
                 /\ cmdPc \in {"FETCH_NEXT", "PROMPT"}
                 /\ cmdPc = "PROMPT" => cmdOut[2][1] \in {"status", "log"}
            /\ isAll =>
                 /\ cmdPc \in {"FETCH_ALL", "PROMPT"}
                 /\ cmdPc = "PROMPT" => cmdOut[2][1] \in {"table", "log"}
            /\ isQuit => cmdPc = "QUIT" /\ exited

\* "quit" was answered with "Invalid command" and the handler prompts again.
C9_Witness ==
    /\ cmdLine = <<"q", "u", "i", "t", "\n">>
    /\ cmdOut = <<Prompt, InvalidCommand>>
    /\ cmdPc = "PROMPT"
    /\ ~exited

\* C10: when the fetch of a next or all command fails, the failure is logged,
\* neither a next-event line nor a table is written, nothing else changes, and
\* the handler is at its prompt again.
C10_FailedCommandFetch ==
    [][(cmdPc \in {"FETCH_NEXT", "FETCH_ALL"} /\ cmdPc' # cmdPc /\ failsLeft' # failsLeft) =>
            /\ cmdOut' = <<Prompt, FetchFailedLog>>
            /\ cmdPc' = "PROMPT"
            /\ cmdSel' = NoSel /\ cmdNow' = NoTime
            /\ ~exited'
            /\ UNCHANGED <<cmdLine, mainVars, pollVars>>
      ]_vars

\* An all command whose fetch failed: only the prompt and the log line.
C10_Witness ==
    /\ cmdPc = "PROMPT"
    /\ IsPadded(cmdLine, CmdAllStr)
    /\ Len(cmdOut) = 2
    /\ cmdOut[2][1] = "log"
    /\ ~exited

----------------------------------------------------------------------------
(* C11 *)

\* The last effect of a trace is the start of a 1-minute sleep.
EndsWithSleep(trace) == trace # <<>> /\ trace[Len(trace)] = <<"sleep", "1m">>

\* C11: the poll loop moves only FETCHING -> SELECTING -> match check ->
\* (MATCHED | IDLE) -> SLEEPING -> FETCHING and FETCHING -> RETRY_WAIT ->
\* FETCHING; MATCHED and IDLE alike start the 1-minute sleep, and FETCHING is
\* re-entered only from a sleep during which a minute has passed.
C11_PollLoopTransitions ==
    [][pollPc' # pollPc =>
         /\ <<pollPc, pollPc'>> \in
              { <<"NOT_STARTED", "FETCHING">>,
                <<"FETCHING", "SELECTING">>, <<"FETCHING", "RETRY_WAIT">>,
                <<"RETRY_WAIT", "FETCHING">>,
                <<"SELECTING", "MATCH_CHECK">>,
                <<"MATCH_CHECK", "MATCHED">>, <<"MATCH_CHECK", "IDLE">>,
                <<"MATCHED", "SLEEPING">>, <<"IDLE", "SLEEPING">>,
                <<"SLEEPING", "FETCHING">> }
         /\ pollPc' \in {"SLEEPING", "RETRY_WAIT"} =>
              EndsWithSleep(pollTrace') /\ ~pollSlept'
         /\ (pollPc' = "FETCHING" /\ pollPc # "NOT_STARTED") =>
              EndsWithSleep(pollTrace) /\ pollSlept
      ]_vars

\* The sleep that follows an alert has lasted its minute.
C11_Witness ==
    /\ pollPc = "SLEEPING"
    /\ pollSlept
    /\ Alerts(pollTrace) # {}
    /\ EndsWithSleep(pollTrace)

----------------------------------------------------------------------------
(* C12 *)

\* The positions of the effects of one kind in a trace.
Effects(trace, kind) == {k \in 1..Len(trace) : trace[k][1] = kind}

\* C12: a poll cycle whose fetch succeeded has performed exactly one fetch and
\* printed exactly one status line, which carries the name and time the
\* Selector is specified to return for the cycle's schedule, and has dispatched
\* at most one alert, after the status line.
C12_OneFetchOneStatusPerCycle ==
    /\ pollPc \in {"MATCH_CHECK", "MATCHED", "IDLE", "SLEEPING"} =>
         /\ Effects(pollTrace, "fetch") = {1}
         /\ pollTrace[1] = <<"fetch", "ok">>
         /\ Effects(pollTrace, "status") = {2}
         /\ Cardinality(Alerts(pollTrace)) <= 1
         /\ \A k \in Alerts(pollTrace) : k > 2
    /\ pollPc \in {"MATCH_CHECK", "MATCHED", "IDLE"} =>
         LET e == ExpectedNext(pollSelNow, pollTimings)
         IN  pollTrace[2] = <<"status", e[1], e[2]>>
    /\ pollPc = "SELECTING" =>
         pollTrace = << <<"fetch", "ok">> >>

\* A cycle that fetched, printed Asr's status line and alerted; the push failed
\* and was logged.
C12_Witness ==
    /\ pollPc = "MATCHED"
    /\ Len(pollTrace) = 4
    /\ pollTrace[2] = <<"status", "Asr", pollTimings.Asr>>
    /\ pollTrace[3] = PrayerAlert("Asr")
    /\ pollTrace[4] = <<"log", "Uh oh!">>

----------------------------------------------------------------------------
(* C13 *)

\* What the poll goroutine itself computes and outputs (pollSlept and pollLag
\* record the passing of time).
pollOwn == <<pollPc, pollTimings, pollSel, pollSelNow, pollNow, pollTrace>>

\* The table an all command is specified to print for a schedule.
ExpectedTable(t) ==
    <<"table", <<"Prayer", "Time">>,
      << <<"Fajr", t.Fajr>>, <<"Sunrise", t.Sunrise>>, <<"Dhuhr", t.Dhuhr>>,
         <<"Asr", t.Asr>>, <<"Maghrib", t.Maghrib>>, <<"Isha", t.Isha>> >> >>

\* C13: the two tasks share no mutable state and no fetched data.  A step of
\* the command handler changes nothing of the poll loop and a step of the poll
\* loop nothing of the command handler; what a next or all command prints is
\* determined by the schedule its own fetch returned and its own clock sample;
\* a poll selection is determined by the schedule fetched in the same cycle,
\* and no schedule or selection is carried into the next cycle.
C13_NoSharedState ==
    [][/\ (pollPc # "NOT_STARTED" /\ cmdVars' # cmdVars) => UNCHANGED <<mainVars, pollVars>>
       /\ (pollPc # "NOT_STARTED" /\ pollOwn' # pollOwn) => UNCHANGED cmdVars
       /\ (cmdPc = "FETCH_NEXT" /\ cmdPc' = "PROMPT" /\ failsLeft' = failsLeft) =>
            /\ cmdTimings' \in Schedules
            /\ cmdNow' = CurrentTime
            /\ LET e == ExpectedNext(CurrentTime, cmdTimings')
               IN  cmdOut' = <<Prompt, <<"status", e[1], e[2]>>>>
       /\ (cmdPc = "FETCH_ALL" /\ cmdPc' = "PROMPT" /\ failsLeft' = failsLeft) =>
            /\ cmdTimings' \in Schedules
            /\ cmdOut' = <<Prompt, ExpectedTable(cmdTimings')>>
       /\ (pollPc = "FETCHING" /\ pollPc' = "SELECTING") =>
            pollTimings' \in Schedules
       /\ (pollPc = "SELECTING" /\ pollPc' = "MATCH_CHECK") =>
            /\ pollTimings' = pollTimings
            /\ pollSel' = ExpectedNext(CurrentTime, pollTimings)
       /\ (pollPc \in {"MATCH_CHECK", "MATCHED", "IDLE"}) =>
            UNCHANGED <<pollTimings, pollSel>> \/ pollPc' = "SLEEPING"
       /\ (pollPc' = "FETCHING") =>
            pollTimings' = ZeroTimings /\ pollSel' = NoSel
      ]_vars

\* Both tasks hold a schedule and a selection of their own, and they differ.
C13_Witness ==
    /\ pollPc = "MATCH_CHECK"
    /\ cmdPc = "PROMPT"
    /\ cmdNow # NoTime
    /\ cmdTimings # pollTimings
    /\ cmdSel # pollSel
    /\ cmdNow # pollSelNow

----------------------------------------------------------------------------
(* C14, C15 *)

\* C14: no error is fatal.  The process has exited only if the command handler
\* has processed q; otherwise, whatever fetches and notifications have failed,
\* main is on its way to starting the two tasks or both tasks are in their
\* loops.
C14_OnlyQuitExits ==
    /\ exited => (cmdPc = "QUIT" /\ IsPadded(cmdLine, CmdQuitStr))
    /\ ~exited =>
         /\ cmdPc # "QUIT"
         /\ mainPc \in {"START", "FETCH", "SLEEP", "SELECT", "SPAWN", "RUNNING"}
         /\ mainPc # "RUNNING" => (pollPc = "NOT_STARTED" /\ cmdPc = "NOT_STARTED")
         /\ mainPc = "RUNNING" =>
              /\ pollPc \in {"FETCHING", "RETRY_WAIT", "SELECTING", "MATCH_CHECK",
                             "MATCHED", "IDLE", "SLEEPING"}
              /\ cmdPc \in {"PROMPT", "FETCH_NEXT", "FETCH_ALL"}

\* The start-up fetch failed and both of main's notifications failed to be
\* pushed; main is about to start the two tasks.
C14_Witness ==
    /\ ~exited
    /\ mainPc = "SPAWN"
    /\ Len(mainTrace) = 5
    /\ mainTrace[2] = <<"log", "Uh oh!">>
    /\ mainTrace[3] = FetchFailedLog
    /\ mainTrace[5] = <<"log", "Uh oh!">>

\* C15 as stated: the Selector is only ever invoked with a schedule a
\* successful fetch returned, at start-up, in the poll loop and in the command
\* handler; after a failed fetch no selection is computed or presented.
C15_SelectorOnlyOnFetchedSchedule ==
    /\ mainNow # NoTime => mainTimings \in Schedules
    /\ pollSelNow # NoTime => pollTimings \in Schedules
    /\ cmdNow # NoTime => cmdTimings \in Schedules
    /\ \A k \in 1..Len(mainTrace) :
         mainTrace[k] = FetchFailedLog =>
             \A j \in (k + 1)..Len(mainTrace) : mainTrace[j][1] # "notify"
    /\ \A k \in 1..Len(pollTrace) :
         mainPc = "RUNNING" /\ pollTrace[k] = FetchFailedLog =>
             Effects(pollTrace, "status") \cup Alerts(pollTrace) = {}
    /\ \A k \in 1..Len(cmdOut) :
         cmdOut[k] = FetchFailedLog =>
             Effects(cmdOut, "status") \cup Effects(cmdOut, "table") = {}

----------------------------------------------------------------------------
(* C16 *)

\* C16: for a schedule whose six times are strictly ascending, a poll cycle
\* alerts only if the clock value sampled at the match check differs from the
\* value the selector sampled in the same cycle; a cycle whose two samples are
\* equal has pushed no alert.
C16_AlertOnlyAcrossMinuteBoundary ==
    (pollPc \in {"MATCHED", "IDLE"} /\ StrictlyAscending(pollTimings)) =>
        /\ pollPc = "MATCHED" => pollSelNow # pollNow
        /\ Alerts(pollTrace) # {} => pollSelNow # pollNow
        /\ pollSelNow = pollNow => (pollPc = "IDLE" /\ Alerts(pollTrace) = {})

\* The selector ran at 23:59, after the last event of an ascending schedule,
\* and wrapped to Fajr; the clock then moved to Fajr's time and the match check
\* alerted.
C16_Witness ==
    /\ pollPc = "MATCHED"
    /\ StrictlyAscending(pollTimings)
    /\ pollSelNow = Format1504(23, 59)
    /\ pollSel = <<"Fajr", pollTimings.Fajr>>
    /\ pollNow = pollTimings.Fajr
    /\ pollTrace[3] = PrayerAlert("Fajr")

----------------------------------------------------------------------------
(* C17 *)

\* C17: the alert is one-shot.  A step that pushes an alert is taken only when
\* no alert has been pushed since the clock last moved, and it pushes exactly
\* one, the only one of its cycle: the poll loop never dispatches two alerts
\* at the same clock minute of the same day.
C17_OneAlertPerMinute ==
    [][Cardinality(Alerts(pollTrace')) > Cardinality(Alerts(pollTrace)) =>
          /\ ~alertedThisMinute
          /\ alertedThisMinute'
          /\ clockIdx' = clockIdx
          /\ Cardinality(Alerts(pollTrace')) = 1]_vars

\* An alert was pushed, the one-minute sleep has begun and the clock still
\* reads the minute of the alert.
C17_Witness ==
    /\ pollPc = "SLEEPING"
    /\ ~pollSlept
    /\ alertedThisMinute
    /\ Cardinality(Alerts(pollTrace)) = 1

====
